---------------------------- MODULE Spec2Model ----------------------------
(***************************************************************************)
(* Model of src/cctvserver.py: a Flask application with one module-level   *)
(* SimpleCCTVCamera whose frame_count is bumped by create_test_image and   *)
(* read by the /status view.                                               *)
(*                                                                         *)
(* The HTTP layer serves each request on a worker thread.  A view runs as  *)
(* a sequence of steps; the only shared mutable datum is frame_count.      *)
(* The statement  self.frame_count += 1  (line 58) is a read of the        *)
(* attribute followed by a write of the sum, and line 59 reads the         *)
(* attribute once more for the label, so the three accesses are three      *)
(* steps that other threads may interleave with.                           *)
(***************************************************************************)
EXTENDS Integers, Sequences, FiniteSets, TLC

VARIABLES
    frame_count,  \* camera.frame_count                         (line 20)
    threaded,     \* whether the HTTP layer overlaps requests
    fontOK,       \* whether ImageFont.load_default() succeeds  (line 46)
    jpegOK,       \* whether image.save(format='JPEG') succeeds (line 67)
    pc,           \* pc[t]: where worker t is in its view
    req,          \* req[t]: the request worker t is serving / served last
    resp,         \* resp[t]: the response worker t sent last
    font,         \* font[t]: local `font` of create_test_image
    tmp,          \* tmp[t]: the value read by `+=` on line 58
    label,        \* label[t]: the N drawn as "Frame: N" on line 59
    entry,        \* entry[t]: frame_count when the call was entered
    nreq,         \* requests received so far
    calls,        \* calls of create_test_image so far
    okSnaps,      \* GET /snapshot requests answered 200 so far
    ri,           \* rectangles drawn by the loop of line 36
    rect          \* the rectangle passed to draw.rectangle last (line 42)

vars == <<frame_count, threaded, fontOK, jpegOK, pc, req, resp, font, tmp,
          label, entry, nreq, calls, okSnaps, ri, rect>>

serverVars == <<frame_count, threaded, fontOK, jpegOK, pc, req, resp, font,
                tmp, label, entry, nreq, calls, okSnaps>>

rectVars == <<ri, rect>>

---------------------------------------------------------------------------
(* Bounds of the model *)

NThreads == 2

MaxRequests == 4

Edge == 2

---------------------------------------------------------------------------
(* Program constants *)

width == 640

height == 480

NRects == 3

Threads == 1..NThreads

Paths == {"/", "/snapshot", "/status"}

Methods == {"GET", "HEAD", "OPTIONS", "POST"}

NoRequest == [method |-> "-", path |-> "-"]

NoResponse == [code |-> 0, body |-> "-", frame_count |-> 0]

NoRect == [x |-> 0, y |-> 0, w |-> 0, h |-> 0]

\* Positions inside create_test_image (lines 22-70).
CallPcs == {"scene", "font", "header", "load", "store", "label", "encode"}

---------------------------------------------------------------------------
(* Library calls the source relies on *)

\* random.randint(a, b): any integer N with a <= N <= b, both ends included.
\* The model draws the values within Edge of either end of the range.
randint(a, b) == {v \in a..b : v < a + Edge \/ v > b - Edge}

\* @app.route(rule) without a methods argument registers the view for GET;
\* Flask adds HEAD to every rule that has GET and runs the same view for
\* it, and answers OPTIONS itself without calling the view.
RouteMethods == {"GET", "HEAD", "OPTIONS"}

\* Methods for which the dispatcher calls the view function.
ViewMethods == RouteMethods \ {"OPTIONS"}

\* draw.text(..., font=f): with f = None Pillow loads the default font
\* itself, which raises exactly when ImageFont.load_default() raises.
TextRenders(f) == f # "None" \/ fontOK

---------------------------------------------------------------------------
(* Initial state: line 14 (app), lines 19-20 and 73 (camera) *)

InitialCount == 0

InitServer ==
    /\ frame_count = InitialCount
    /\ pc = [t \in Threads |-> "idle"]
    /\ req = [t \in Threads |-> NoRequest]
    /\ resp = [t \in Threads |-> NoResponse]
    /\ font = [t \in Threads |-> "-"]
    /\ tmp = [t \in Threads |-> 0]
    /\ label = [t \in Threads |-> 0]
    /\ entry = [t \in Threads |-> 0]
    /\ nreq = 0
    /\ calls = 0
    /\ okSnaps = 0

InitRect ==
    /\ ri = 0
    /\ rect = NoRect

Init ==
    /\ InitServer
    /\ InitRect
    /\ threaded \in BOOLEAN
    /\ fontOK \in BOOLEAN
    /\ jpegOK \in BOOLEAN

---------------------------------------------------------------------------
(* The HTTP layer *)

\* Worker t receives a request.  Without threading a request is taken only
\* when no other request is being served.
Receive(t) ==
    /\ pc[t] = "idle"
    /\ nreq < MaxRequests
    /\ threaded \/ \A u \in Threads : pc[u] = "idle"
    /\ \E m \in Methods, p \in Paths :
          req' = [req EXCEPT ![t] = [method |-> m, path |-> p]]
    /\ pc' = [pc EXCEPT ![t] = "route"]
    /\ resp' = [resp EXCEPT ![t] = NoResponse]
    /\ nreq' = nreq + 1
    /\ UNCHANGED <<frame_count, threaded, fontOK, jpegOK, font, tmp, label,
                   entry, calls, okSnaps, rectVars>>

\* The view a path is routed to (lines 75, 163, 169).
ViewOf(p) == CASE p = "/" -> "home"
               [] p = "/snapshot" -> "snapshot"
               [] p = "/status" -> "status"

\* Flask's dispatch of the request to the view registered for its path.
Dispatch(t) ==
    /\ pc[t] = "route"
    /\ IF req[t].method \notin RouteMethods
       THEN /\ pc' = [pc EXCEPT ![t] = "idle"]
            /\ resp' = [resp EXCEPT ![t] =
                          [code |-> 405, body |-> "error", frame_count |-> 0]]
       ELSE IF req[t].method \notin ViewMethods
       THEN /\ pc' = [pc EXCEPT ![t] = "idle"]
            /\ resp' = [resp EXCEPT ![t] =
                          [code |-> 200, body |-> "allow", frame_count |-> 0]]
       ELSE /\ pc' = [pc EXCEPT ![t] = ViewOf(req[t].path)]
            /\ UNCHANGED resp
    /\ UNCHANGED <<frame_count, threaded, fontOK, jpegOK, req, font, tmp,
                   label, entry, nreq, calls, okSnaps, rectVars>>

---------------------------------------------------------------------------
(* The views *)

\* home(), lines 75-161: returns the static page.
home(t) ==
    /\ pc[t] = "home"
    /\ pc' = [pc EXCEPT ![t] = "idle"]
    /\ resp' = [resp EXCEPT ![t] =
                  [code |-> 200, body |-> "html", frame_count |-> 0]]
    /\ UNCHANGED <<frame_count, threaded, fontOK, jpegOK, req, font, tmp,
                   label, entry, nreq, calls, okSnaps, rectVars>>

\* status() obtaining the count by way of the generator, which bumps it.
statusCounting(t) ==
    /\ pc[t] = "status"
    /\ pc' = [pc EXCEPT ![t] = "idle"]
    /\ frame_count' = frame_count + 1
    /\ resp' = [resp EXCEPT ![t] =
                  [code |-> 200, body |-> "json",
                   frame_count |-> frame_count + 1]]
    /\ UNCHANGED <<threaded, fontOK, jpegOK, req, font, tmp, label, entry,
                   nreq, calls, okSnaps, rectVars>>

\* status(), lines 169-180: builds the JSON object, reading
\* camera.frame_count on line 176.
status(t) ==
    /\ pc[t] = "status"
    /\ pc' = [pc EXCEPT ![t] = "idle"]
    /\ resp' = [resp EXCEPT ![t] =
                  [code |-> 200, body |-> "json", frame_count |-> frame_count]]
    /\ UNCHANGED <<frame_count, threaded, fontOK, jpegOK, req, font, tmp,
                   label, entry, nreq, calls, okSnaps, rectVars>>

\* snapshot(), line 166: calls camera.create_test_image().
snapshot(t) ==
    /\ pc[t] = "snapshot"
    /\ pc' = [pc EXCEPT ![t] = "scene"]
    /\ entry' = [entry EXCEPT ![t] = frame_count]
    /\ calls' = calls + 1
    /\ UNCHANGED <<frame_count, threaded, fontOK, jpegOK, req, resp, font,
                   tmp, label, nreq, okSnaps, rectVars>>

\* The locals of a call of create_test_image die with the call.
Discard(t) ==
    /\ font' = [font EXCEPT ![t] = "-"]
    /\ tmp' = [tmp EXCEPT ![t] = 0]
    /\ label' = [label EXCEPT ![t] = 0]
    /\ entry' = [entry EXCEPT ![t] = 0]

\* An exception leaving create_test_image leaves snapshot() too; Flask
\* answers the request with 500.
Raised(t) ==
    /\ pc' = [pc EXCEPT ![t] = "idle"]
    /\ resp' = [resp EXCEPT ![t] =
                  [code |-> 500, body |-> "error", frame_count |-> 0]]
    /\ Discard(t)

---------------------------------------------------------------------------
(* create_test_image, lines 22-70, one thread-local image per call *)

\* Lines 25-42: canvas, grid and rectangles; touches only the local image
\* (the rectangle loop is followed step by step by DrawRectangle below).
DrawScene(t) ==
    /\ pc[t] = "scene"
    /\ pc' = [pc EXCEPT ![t] = "font"]
    /\ UNCHANGED <<frame_count, threaded, fontOK, jpegOK, req, resp, font,
                   tmp, label, entry, nreq, calls, okSnaps, rectVars>>

\* Lines 45-48: try load_default(), on any exception font = None.
LoadFont(t) ==
    /\ pc[t] = "font"
    /\ font' = [font EXCEPT ![t] = IF fontOK THEN "default" ELSE "None"]
    /\ pc' = [pc EXCEPT ![t] = "header"]
    /\ UNCHANGED <<frame_count, threaded, fontOK, jpegOK, req, resp, tmp,
                   label, entry, nreq, calls, okSnaps, rectVars>>

\* Lines 51-55: camera name and timestamp, drawn with `font`.
DrawHeader(t) ==
    /\ pc[t] = "header"
    /\ IF TextRenders(font[t])
       THEN /\ pc' = [pc EXCEPT ![t] = "load"]
            /\ UNCHANGED <<resp, font, tmp, label, entry>>
       ELSE Raised(t)
    /\ UNCHANGED <<frame_count, threaded, fontOK, jpegOK, req, nreq, calls,
                   okSnaps, rectVars>>

\* Line 58, first half: the read of self.frame_count.
LoadCount(t) ==
    /\ pc[t] = "load"
    /\ tmp' = [tmp EXCEPT ![t] = frame_count]
    /\ pc' = [pc EXCEPT ![t] = "store"]
    /\ UNCHANGED <<frame_count, threaded, fontOK, jpegOK, req, resp, font,
                   label, entry, nreq, calls, okSnaps, rectVars>>

\* Line 58 written  self.frame_count =+ 1 : the value read is dropped.
AssignedPlusOne(v) == 1

\* The value line 58 computes from the value it read.
Incremented(v) == v + 1

\* Line 58, second half: the write of the sum to self.frame_count.
StoreCount(t) ==
    /\ pc[t] = "store"
    /\ frame_count' = Incremented(tmp[t])
    /\ pc' = [pc EXCEPT ![t] = "label"]
    /\ UNCHANGED <<threaded, fontOK, jpegOK, req, resp, font, tmp, label,
                   entry, nreq, calls, okSnaps, rectVars>>

\* Line 59: the f-string reads self.frame_count again and draws it.
DrawLabel(t) ==
    /\ pc[t] = "label"
    /\ IF TextRenders(font[t])
       THEN /\ label' = [label EXCEPT ![t] = frame_count]
            /\ pc' = [pc EXCEPT ![t] = "encode"]
            /\ UNCHANGED <<resp, font, tmp, entry>>
       ELSE Raised(t)
    /\ UNCHANGED <<frame_count, threaded, fontOK, jpegOK, req, nreq, calls,
                   okSnaps, rectVars>>

\* Lines 62-68: REC indicator and JPEG encoding into the buffer.
Encode(t) ==
    /\ pc[t] = "encode"
    /\ IF TextRenders(font[t]) /\ jpegOK
       THEN /\ pc' = [pc EXCEPT ![t] = "send"]
            /\ UNCHANGED <<resp, font, tmp, label, entry>>
       ELSE Raised(t)
    /\ UNCHANGED <<frame_count, threaded, fontOK, jpegOK, req, nreq, calls,
                   okSnaps, rectVars>>

\* Lines 70 and 167: return img_buffer; send_file(..., 'image/jpeg').
Send(t) ==
    /\ pc[t] = "send"
    /\ pc' = [pc EXCEPT ![t] = "idle"]
    /\ resp' = [resp EXCEPT ![t] =
                  [code |-> 200, body |-> "jpeg", frame_count |-> 0]]
    /\ okSnaps' = IF req[t].method = "GET" THEN okSnaps + 1 ELSE okSnaps
    /\ Discard(t)
    /\ UNCHANGED <<frame_count, threaded, fontOK, jpegOK, req, nreq, calls,
                   rectVars>>

Next ==
    \E t \in Threads :
        \/ Receive(t)
        \/ Dispatch(t)
        \/ home(t)
        \/ status(t)
        \/ snapshot(t)
        \/ DrawScene(t)
        \/ LoadFont(t)
        \/ DrawHeader(t)
        \/ LoadCount(t)
        \/ StoreCount(t)
        \/ DrawLabel(t)
        \/ Encode(t)
        \/ Send(t)

\* The server under every deployment: threaded or not, with or without the
\* font and the JPEG encoder.
Spec == Init /\ [][Next]_vars

\* One request at a time on an installation where the font loads and the
\* JPEG encoder works.
InitSeq ==
    /\ InitServer
    /\ InitRect
    /\ threaded = FALSE
    /\ fontOK = TRUE
    /\ jpegOK = TRUE

SpecSeq == InitSeq /\ [][Next]_vars

---------------------------------------------------------------------------
(* The rectangle loop of create_test_image, lines 35-42, on its own *)

\* Line 37 without the margin: x = random.randint(0, width)
RectXAnywhere == randint(0, width)

\* Line 37: x = random.randint(0, width-100)
RectX == randint(0, width - 100)

\* Line 38: y = random.randint(0, height-100)
RectY == randint(0, height - 100)

\* Lines 39-40: w, h = random.randint(30, 100)
RectSide == randint(30, 100)

\* One iteration of  for _ in range(3):  the four draws and the call
\* draw.rectangle([x, y, x+w, y+h], ...).  The colour is not modelled.
DrawRectangle ==
    /\ ri < NRects
    /\ \E x \in RectX, y \in RectY, w \in RectSide, h \in RectSide :
          rect' = [x |-> x, y |-> y, w |-> w, h |-> h]
    /\ ri' = ri + 1
    /\ UNCHANGED serverVars

NextRect == DrawRectangle

\* One call of create_test_image, followed through its rectangle loop.
SpecRect == InitSeq /\ [][NextRect]_vars

---------------------------------------------------------------------------
(* Claims *)

Idle == \A t \in Threads : pc[t] = "idle"

NoCallRunning == \A t \in Threads : pc[t] \notin CallPcs

\* C1: when the concurrently running calls of create_test_image have all
\* finished, frame_count equals the number of calls made (stated for an
\* installation on which no call raises).
C1_ConcurrentCallsAllCounted ==
    (fontOK /\ jpegOK /\ NoCallRunning) => frame_count = calls

\* C2: with requests served one at a time, once N calls of
\* create_test_image have been made and none is running, frame_count = N;
\* a /status answered then reports that N.
C2_SequentialCallsCounted ==
    /\ NoCallRunning => frame_count = calls
    /\ \A t \in Threads : pc[t] = "status" => frame_count = calls

\* C2 witness: three /snapshot requests have been served and a /status
\* answered after them reports 3.
C2_ThreeSnapshotsThenStatus ==
    /\ Idle
    /\ calls = 3
    /\ frame_count = 3
    /\ \E t \in Threads : resp[t].body = "json" /\ resp[t].frame_count = 3

\* C3: the frame_count a /status response carries equals the number of
\* GET /snapshot requests answered successfully before it (stated for a
\* /status served while no other request is in progress).
C3_StatusCountsSuccessfulSnapshots ==
    [][\A t \in Threads :
          (status(t) /\ \A u \in Threads \ {t} : pc[u] = "idle")
              => resp'[t].frame_count = okSnaps]_vars

\* C4: frame_count never takes a value lower than one it held before.
C4_Monotonic == [][frame_count' >= frame_count]_vars

\* C5: the label a call draws is the value its own increment produced, and
\* the labels of calls in progress together are pairwise different.
C5_LabelIsOwnIncrement ==
    /\ \A t \in Threads : pc[t] = "encode" => label[t] = Incremented(tmp[t])
    /\ \A t, u \in Threads :
          (t # u /\ pc[t] = "encode" /\ pc[u] = "encode")
              => label[t] # label[u]

\* C6: a request whose method is not GET never runs the frame generator.
C6_OnlyGetRunsGenerator ==
    \A t \in Threads : req[t].method # "GET" => pc[t] \notin CallPcs

\* C7: when the font cannot be loaded (and nothing else fails), a
\* GET /snapshot is still answered 200.
C7_FontFailureDegrades ==
    \A t \in Threads :
        (~fontOK /\ jpegOK /\ pc[t] = "idle"
            /\ req[t] = [method |-> "GET", path |-> "/snapshot"])
        => resp[t].code = 200

\* C8: the loop draws at most NRects rectangles, and every rectangle drawn
\* has w and h in [30,100], x >= 0, y >= 0, x+w <= width, y+h <= height.
C8_RectanglesInsideCanvas ==
    /\ ri \in 0..NRects
    /\ ri > 0 =>
          /\ rect.w \in 30..100
          /\ rect.h \in 30..100
          /\ rect.x >= 0
          /\ rect.y >= 0
          /\ rect.x + rect.w <= width
          /\ rect.y + rect.h <= height

\* C8 witness: the third rectangle has been drawn, and it touches the
\* right and bottom edges of the canvas.
C8_ThirdRectangleAtCorner ==
    /\ ri = 3
    /\ rect.x + rect.w = width
    /\ rect.y + rect.h = height

\* C9: a step of home() or status() leaves frame_count as it was.
C9_ReadsLeaveCount ==
    [][\A t \in Threads :
          (home(t) \/ status(t)) => frame_count' = frame_count]_vars

\* C9 witness: after a snapshot was taken, / and /status have been served
\* and /status reported the count the snapshot left.
C9_ReadsAfterSnapshot ==
    /\ frame_count = 1
    /\ Idle
    /\ \E t, u \in Threads :
          /\ resp[t].body = "json" /\ resp[t].frame_count = 1
          /\ resp[u].body = "html"

\* C10: with requests served one at a time, a call of create_test_image
\* that raises leaves frame_count at the value it had when the call began.
C10_FailedCallLeavesCount ==
    [][\A t \in Threads :
          (~threaded /\ pc[t] \in CallPcs /\ pc'[t] = "idle")
              => frame_count' = entry[t]]_vars

===========================================================================
